---- MODULE Spec2Model ----
(***************************************************************************)
(* Cruise Capacity Dashboard (src/appv2.py, src/app.py).                   *)
(*                                                                         *)
(* Specifications over one set of variables:                               *)
(*   SpecClean    clean_capacity_column applied to one value column         *)
(*   SpecGeom     the geometry block of create_pie_chart for n slices and   *)
(*                a maximum label length L                                  *)
(*   SpecPie      create_pie_chart and create_bar_chart called on a series, *)
(*                a display order and style arguments                       *)
(*   Spec         the render pass of appv2.py: theme, uploads, advanced     *)
(*                settings, build_sidebar, the two configurators, layout,   *)
(*                data preview, auto-refresh; the user draws the files from *)
(*                the generated workbooks and moves the title slider        *)
(*   SpecLive     Spec with the fairness of the auto-refresh re-run         *)
(*   SpecSession  the same pass, the user working the theme button and the  *)
(*                advanced widgets on two sample workbooks                  *)
(*                                                                         *)
(* Representation.                                                         *)
(*   text     a sequence of one-character strings; a cell of a sheet is    *)
(*            the text str() gives for it, or NA for an empty cell         *)
(*   number   [nan, m, e]: m * 10^-e with no trailing zero in the fraction,*)
(*            or NaN; the int64/float64 distinction of pandas is dropped   *)
(*   fraction of the figure (gutters, domains): an integer count of 1e-4;  *)
(*            the title position: an integer count of 1e-6.  Python's      *)
(*            binary floats are modelled by exact decimal arithmetic.      *)
(***************************************************************************)
EXTENDS Integers, Sequences, FiniteSets, TLC

VARIABLES
    \* SpecClean
    series,            \* the value column handed to clean_capacity_column
    clean_out,         \* its result, <<>> before the call
    clean_done,
    \* SpecGeom
    g_n,               \* num_slices
    g_L,               \* max_label_len (NanLen for an empty frame)
    g_adj,             \* title_y_adjustment, in tenths
    g_out,             \* the geometry computed, or NoGeom
    \* Spec (render pass of appv2.py)
    pc,                \* position of the script
    session_state,     \* st.session_state
    pie_file, bar_file,
    pie, bar,          \* what build_sidebar returned, or NotLoaded
    fig_pie, fig_bar,  \* the chart specifications, or NoFig
    charts_drawn,
    rendered,          \* figures passed to st.plotly_chart in this pass
    previewed,         \* frames passed to st.dataframe in this pass
    messages,          \* st.info / st.error messages and the footer of this pass
    exception,         \* the exception that ended the pass, or "none"
    page_css,          \* the page colours st.markdown applied in this pass, or NoCss
    widgets,           \* the style fields as the widgets had written them when the
                       \* reset button of this pass was pressed
    regime,            \* which inputs the user draws from: "data" or "style"
    \* SpecPie (the two configurators called directly)
    p_df,              \* the series handed to the configurators
    p_order,           \* custom_order: [is_none, labels]
    p_style,           \* the style arguments
    p_pie,             \* what create_pie_chart gave, or NotCalled
    p_bar              \* what create_bar_chart gave, or NotCalled

cleanVars == <<series, clean_out, clean_done>>
geomVars == <<g_n, g_L, g_adj, g_out>>
passVars == <<pc, session_state, pie_file, bar_file, pie, bar, fig_pie, fig_bar,
              charts_drawn, rendered, previewed, messages, exception, widgets,
              regime, page_css>>
pieVars == <<p_df, p_order, p_style, p_pie, p_bar>>
vars == <<cleanVars, geomVars, passVars, pieVars>>

-----------------------------------------------------------------------------
(* Bounds of the model *)

\* longest generated cell text in SpecClean
MaxLen == 3
\* most data rows of a generated sheet in Spec
MaxRows == 2
\* most slices in SpecGeom
MaxSlices == 36
\* longest label in SpecGeom
MaxLabelLen == 61

-----------------------------------------------------------------------------
(* Text and numbers *)

Digits == {"0", "1", "2", "3", "4", "5", "6", "7", "8", "9"}

DigitVal(c) ==
    CASE c = "0" -> 0 [] c = "1" -> 1 [] c = "2" -> 2 [] c = "3" -> 3
      [] c = "4" -> 4 [] c = "5" -> 5 [] c = "6" -> 6 [] c = "7" -> 7
      [] c = "8" -> 8 [] c = "9" -> 9

\* an empty cell (pandas NaN in an object column)
NA == <<"nan">>

NaN == [nan |-> TRUE, m |-> 0, e |-> 0]

RECURSIVE Normalise(_, _)
Normalise(m, e) ==
    IF e > 0 /\ m % 10 = 0 THEN Normalise(m \div 10, e - 1)
    ELSE [nan |-> FALSE, m |-> m, e |-> e]

Num(m) == Normalise(m, 0)

Min(a, b) == IF b < a THEN b ELSE a
Max(a, b) == IF b > a THEN b ELSE a

\* Series.astype(str): a missing cell becomes the text "nan"
astype_str(cell) == IF cell = NA THEN <<"n", "a", "n">> ELSE cell

\* faulty variant: only the thousands separators are removed, as app.py does
str_replace_commas_only(s) == SelectSeq(s, LAMBDA c : c # ",")

\* faulty variant: the character class also keeps the minus sign, [^\d.-]
str_replace_keeping_sign(s) == SelectSeq(s, LAMBDA c : c \in Digits \cup {".", "-"})

\* Series.str.replace(r'[^\d.]', '', regex=True)
str_replace(s) == SelectSeq(s, LAMBDA c : c \in Digits \cup {"."})

CountDots(s) == Len(SelectSeq(s, LAMBDA c : c = "."))

RECURSIVE DigitsValue(_)
DigitsValue(s) ==
    IF s = <<>> THEN 0
    ELSE 10 * DigitsValue(SubSeq(s, 1, Len(s) - 1)) + DigitVal(s[Len(s)])

RECURSIVE FractionLen(_)
FractionLen(s) ==
    IF s = <<>> \/ s[Len(s)] = "." THEN 0
    ELSE 1 + FractionLen(SubSeq(s, 1, Len(s) - 1))

\* the value of a text of digits and '.': the text parses when it holds a
\* digit and at most one '.'; anything else is NaN
parse_unsigned(s) ==
    LET ds == SelectSeq(s, LAMBDA c : c \in Digits)
    IN  IF ds = <<>> \/ CountDots(s) > 1 \/ Len(ds) + CountDots(s) # Len(s) THEN NaN
        ELSE Normalise(DigitsValue(ds),
                       IF CountDots(s) = 0 THEN 0 ELSE FractionLen(s))

negated(x) == IF x.nan THEN x ELSE [x EXCEPT !.m = -x.m]

\* pd.to_numeric(..., errors='coerce'): an unsigned text, or one with a
\* leading '-', parses; a text holding any other character is NaN.
\* (Exponents and blanks, which pandas would parse, never reach it:
\* str_replace has removed them.)
to_numeric_coerce(s) ==
    IF s # <<>> /\ s[1] = "-" THEN negated(parse_unsigned(Tail(s)))
    ELSE parse_unsigned(s)

clean_cell(cell) == to_numeric_coerce(str_replace(astype_str(cell)))

\* clean_capacity_column(series)
clean_capacity_column(col) == [i \in DOMAIN col |-> clean_cell(col[i])]

-----------------------------------------------------------------------------
(* SpecClean: clean_capacity_column on one value column *)

Alphabet == {"5", "0", ",", "$", ".", "a", "-"}

RECURSIVE Texts(_)
Texts(n) ==
    IF n = 0 THEN {<<>>}
    ELSE LET shorter == Texts(n - 1)
         IN  shorter \cup {Append(t, c) : t \in {u \in shorter : Len(u) = n - 1},
                                          c \in Alphabet}

Txt_12345 == <<"$", "1", "2", ",", "3", "4", "5", ".", "0", "0">>
Txt_500000 == <<"5", "0", "0", ",", "0", "0", "0">>
Txt_600000 == <<"6", "0", "0", ",", "0", "0", "0">>
Txt_abc == <<"a", "b", "c">>
Txt_minus5 == <<"-", "5">>
Txt_minus5_0 == <<"-", "5", ".", "0">>
Txt_1200000 == <<"1", ",", "2", "0", "0", ",", "0", "0", "0">>
Txt_980500 == <<"9", "8", "0", ",", "5", "0", "0">>

CleanInputs ==
    {<<t>> : t \in Texts(MaxLen) \cup {NA, Txt_12345, Txt_minus5_0}}
        \cup {<<Txt_500000, Txt_abc, Txt_600000>>, <<Txt_1200000, Txt_980500>>}

InitClean ==
    /\ series \in CleanInputs
    /\ clean_out = <<>>
    /\ clean_done = FALSE

Clean ==
    /\ ~clean_done
    /\ clean_out' = clean_capacity_column(series)
    /\ clean_done' = TRUE
    /\ UNCHANGED <<series, geomVars, passVars, pieVars>>

-----------------------------------------------------------------------------
(* The geometry block of create_pie_chart ("safety gutters") *)

\* max_label_len of an empty frame: Series.max() of no rows is NaN
NanLen == -1

\* min(cap, x) as Python evaluates it when x may be NaN: the first argument
\* is kept unless the second compares smaller, and no comparison with NaN
\* is true
py_min(cap, x_is_nan, x) == IF x_is_nan THEN cap ELSE Min(cap, x)

\* faulty variant: the cap of 0.25 is forgotten
h_gutter_uncapped(n, L) == IF L = NanLen THEN 2500 ELSE 1000 + 50 * L + 20 * n

\* h_gutter = min(0.25, 0.10 + max_label_len * 0.005 + num_slices * 0.002)
h_gutter(n, L) == py_min(2500, L = NanLen, 1000 + 50 * L + 20 * n)

\* faulty variant: the middle tier is the only formula, for every slice count
v_gutter_t_one_tier(n, L) == py_min(2500, L = NanLen, 1200 + 60 * n + 15 * L)

\* v_gutter_t: three tiers keyed on num_slices
v_gutter_t(n, L) ==
    IF n <= 8 THEN py_min(2000, L = NanLen, 1000 + 50 * n + 10 * L)
    ELSE IF n <= 15 THEN py_min(2500, L = NanLen, 1200 + 60 * n + 15 * L)
    ELSE py_min(3000, L = NanLen, 1500 + 70 * n + 20 * L)

\* v_gutter_b = min(0.12, 0.05 + num_slices * 0.002)
v_gutter_b(n) == Min(1200, 500 + 20 * n)

x_domain(n, L) == <<h_gutter(n, L), 10000 - h_gutter(n, L)>>
y_domain(n, L) == <<v_gutter_b(n), 10000 - v_gutter_t(n, L)>>

\* the fraction of v_gutter_t the title sits above the pie, in hundredths
title_fraction(n) == IF n <= 8 THEN 35 ELSE IF n <= 15 THEN 50 ELSE 60

\* base_title_y_pos = y_pie_top + v_gutter_t * fraction      (units of 1e-6)
base_title_y_pos(n, L) ==
    100 * y_domain(n, L)[2] + v_gutter_t(n, L) * title_fraction(n)

\* faulty variant: the shifted position is emitted without the clamp
adjusted_title_y_pos_unclamped(n, L, adj) ==
    base_title_y_pos(n, L) + adj * v_gutter_t(n, L) * 5

\* adjusted_title_y_pos, title_y_adjustment given in tenths  (units of 1e-6)
adjusted_title_y_pos(n, L, adj) ==
    LET shifted == base_title_y_pos(n, L) + adj * v_gutter_t(n, L) * 5
    IN  Min(Max(shifted, 20000), 980000)

\* pie_center_y = (y_domain[0] + y_domain[1]) / 2            (units of 1e-6)
pie_center_y(n, L) == 50 * (y_domain(n, L)[1] + y_domain(n, L)[2])

geometry(n, L, adj) ==
    [h_gutter   |-> h_gutter(n, L),
     v_gutter_t |-> v_gutter_t(n, L),
     v_gutter_b |-> v_gutter_b(n),
     x_domain   |-> x_domain(n, L),
     y_domain   |-> y_domain(n, L),
     title_y    |-> adjusted_title_y_pos(n, L, adj),
     pie_center_y |-> pie_center_y(n, L)]

\* the slider "Title Vertical Position": -1.0 .. 1.0 in steps of 0.1
TitleAdjustments == -10 .. 10

-----------------------------------------------------------------------------
(* SpecGeom: the geometry for every slice count and label length *)

NoGeom == [h_gutter |-> -1]

InitGeom ==
    /\ g_n \in 0 .. MaxSlices
    /\ g_L \in IF g_n = 0 THEN {NanLen} ELSE 0 .. MaxLabelLen
    /\ g_adj \in TitleAdjustments
    /\ g_out = NoGeom

Configure ==
    /\ g_out = NoGeom
    /\ g_out' = geometry(g_n, g_L, g_adj)
    /\ UNCHANGED <<g_n, g_L, g_adj, cleanVars, passVars, pieVars>>

-----------------------------------------------------------------------------
(* Uploaded files.  A workbook that parses holds named sheets; a sheet is a *)
(* grid of cells, its first row the header row when the user says so.       *)

CorruptFile == [parses |-> FALSE, sheets |-> <<>>]
Workbook(grid) == [parses |-> TRUE, sheets |-> <<[name |-> "Sheet1", grid |-> grid]>>]
NoFile == [parses |-> FALSE, sheets |-> <<[name |-> "none", grid |-> <<>>]>>]

Hdr_L == <<"L">>
Hdr_C == <<"C">>
Lab_A == <<"A">>
Lab_B == <<"B", "b">>
Val_7 == <<"7">>
Val_x == <<"x">>
Lab_Royal == <<"R", "o", "y", "a", "l", " ", "C", "a", "r", "i", "b", "b", "e", "a", "n">>
Lab_Carnival == <<"C", "a", "r", "n", "i", "v", "a", "l">>
Txt_2017 == <<"2", "0", "1", "7">>
Txt_2018 == <<"2", "0", "1", "8">>
Txt_2019 == <<"2", "0", "1", "9">>

GenLabels == {Lab_A, Lab_B, NA}
GenValues == {Val_7, Val_x, NA}
GenRowSet == {<<l, v>> : l \in GenLabels, v \in GenValues}

RECURSIVE SeqsUpTo(_, _)
SeqsUpTo(S, n) ==
    IF n = 0 THEN {<<>>}
    ELSE LET shorter == SeqsUpTo(S, n - 1)
         IN  shorter \cup {Append(t, x) : t \in {u \in shorter : Len(u) = n - 1},
                                          x \in S}

\* generated sheets: a header row and up to MaxRows data rows
GenGrids == {<<<<Hdr_L, Hdr_C>>>> \o rows : rows \in SeqsUpTo(GenRowSet, MaxRows)}

Grid_Cruise == <<<<Hdr_L, Hdr_C>>, <<Lab_Royal, Txt_1200000>>, <<Lab_Carnival, Txt_980500>>>>
Grid_Years == <<<<Hdr_L, Hdr_C>>, <<Txt_2017, Txt_500000>>, <<Txt_2018, Txt_abc>>,
                <<Txt_2019, Txt_600000>>>>
Grid_OneColumn == <<<<Hdr_L>>, <<Lab_A>>>>
Grid_Blank == <<>>

PieFiles ==
    {CorruptFile} \cup {Workbook(g) : g \in GenGrids \cup {Grid_Cruise, Grid_OneColumn, Grid_Blank}}
BarFiles ==
    {CorruptFile} \cup {Workbook(g) : g \in {Grid_Years, Grid_OneColumn}}

-----------------------------------------------------------------------------
(* build_sidebar *)

DigitChar(i) == CHOOSE c \in Digits : DigitVal(c) = i

\* f"Column {i}"
ColumnName(i) == <<"C", "o", "l", "u", "m", "n", " ", DigitChar(i)>>

Width(grid) == IF grid = <<>> THEN 0 ELSE Len(grid[1])

\* faulty variant: the sheet is always read with header=0, the columns are
\* renamed afterwards
read_excel_header_row_lost(grid, has_header) ==
    [columns |-> IF has_header
                 THEN (IF grid = <<>> THEN <<>> ELSE grid[1])
                 ELSE [i \in 1 .. Width(grid) |-> ColumnName(i - 1)],
     rows    |-> IF grid = <<>> THEN <<>> ELSE Tail(grid)]

\* pd.read_excel(df_raw, sheet_name=sheet, header=0 if has_header else None)
\* followed by the renaming of the columns of a sheet read without header
read_excel(grid, has_header) ==
    IF has_header
    THEN [columns |-> IF grid = <<>> THEN <<>> ELSE grid[1],
          rows    |-> IF grid = <<>> THEN <<>> ELSE Tail(grid)]
    ELSE [columns |-> [i \in 1 .. Width(grid) |-> ColumnName(i - 1)],
          rows    |-> grid]

\* df[[label, value]].dropna(): the rows whose two selected cells are present
dropna(rows, label, value) ==
    SelectSeq(rows, LAMBDA r : r[label] # NA /\ r[value] # NA)

RECURSIVE unique(_)
unique(xs) ==
    IF xs = <<>> THEN <<>>
    ELSE LET front == unique(SubSeq(xs, 1, Len(xs) - 1))
             x == xs[Len(xs)]
         IN  IF \E i \in DOMAIN front : front[i] = x THEN front ELSE Append(front, x)

Range(f) == {f[i] : i \in DOMAIN f}

\* what st.multiselect can return: the options the user picked, in the order
\* picked (each option at most once)
Selections(options) ==
    {o \in SeqsUpTo(Range(options), Len(options)) :
        \A i, j \in DOMAIN o : i # j => o[i] # o[j]}

NotLoaded == [exc |-> "not called"]

\* build_sidebar(chart_key, df_raw, sheets) for the user's choices: the sheet
\* read with or without header, the label and value columns (positions in
\* df.columns), and the display order chosen from the labels
cleaned_frame(df, label, value) ==
    LET kept == dropna(df.rows, label, value)
        vals == clean_capacity_column([i \in DOMAIN kept |-> kept[i][value]])
    IN  [i \in DOMAIN kept |-> [label |-> kept[i][label], value |-> vals[i]]]

build_sidebar(chart_key, grid, has_header, label, value, order) ==
    LET df == read_excel(grid, has_header)
    IN  IF Len(df.columns) = 0
        THEN [exc |-> "KeyError"]                \* df[[None, None]]
        ELSE IF Len(df.columns) = 1
        THEN [exc |-> "StreamlitAPIException"]   \* selectbox(..., index=1)
        ELSE IF label = value
        THEN [exc |-> "AttributeError"]          \* cleaned[value] is a frame
        ELSE [exc |-> "none",
              has_header |-> has_header,
              columns |-> df.columns,
              cleaned |-> cleaned_frame(df, label, value),
              label |-> df.columns[label],
              value |-> df.columns[value],
              theme |-> IF chart_key = "pie" THEN "Prism" ELSE "Viridis",
              copyright |-> "(c) Data: Cruise Industry News",
              order |-> IF chart_key = "pie" THEN [is_none |-> FALSE, labels |-> order]
                        ELSE [is_none |-> TRUE, labels |-> <<>>]]

all_labs(grid, has_header, label, value) ==
    LET c == cleaned_frame(read_excel(grid, has_header), label, value)
    IN  unique([i \in DOMAIN c |-> c[i].label])

-----------------------------------------------------------------------------
(* The configurators *)

\* faulty variant: the order is tested with "is not None"
truthy_not_none(custom_order) == ~custom_order.is_none

\* the truth value Python gives a custom_order (None and [] are false)
truthy(custom_order) == ~custom_order.is_none /\ custom_order.labels # <<>>

labels_of(df) == [i \in DOMAIN df |-> df[i].label]
values_of(df) == [i \in DOMAIN df |-> df[i].value]

has_duplicates(xs) == \E i, j \in DOMAIN xs : i # j /\ xs[i] = xs[j]

\* df.set_index(label_col).reindex(custom_order).reset_index(): one row per
\* label of the order, with the value of the row that carries the label or
\* NaN when no row does.  pandas refuses to reindex an index with duplicate
\* labels unless the target equals the index.
reindex(df, target) ==
    IF labels_of(df) = target THEN [exc |-> "none", df |-> df]
    ELSE IF has_duplicates(labels_of(df)) THEN [exc |-> "ValueError"]
    ELSE [exc |-> "none",
          df |-> [i \in DOMAIN target |->
                    IF \E k \in DOMAIN df : df[k].label = target[i]
                    THEN df[CHOOSE k \in DOMAIN df : df[k].label = target[i]]
                    ELSE [label |-> target[i], value |-> NaN]]]

RECURSIVE MaxOf(_)
MaxOf(xs) ==
    IF Len(xs) = 1 THEN xs[1] ELSE Max(xs[Len(xs)], MaxOf(SubSeq(xs, 1, Len(xs) - 1)))

\* faulty variant: .min() is written for .max()
max_label_len_min(df) ==
    IF df = <<>> THEN NanLen
    ELSE -MaxOf([i \in DOMAIN df |-> -Len(astype_str(df[i].label))])

\* df[label_col].astype(str).map(len).max()
max_label_len(df) ==
    IF df = <<>> THEN NanLen
    ELSE MaxOf([i \in DOMAIN df |-> Len(astype_str(df[i].label))])

\* textposition: "auto" up to ten slices, "outside" above
textposition(n) == IF n <= 10 THEN "auto" ELSE "outside"

\* faulty variant: the font tiers use the bounds of the label position
base_font_sizes_inclusive(n) ==
    IF n <= 10 THEN [inside |-> 14, outside |-> 12]
    ELSE IF n <= 15 THEN [inside |-> 12, outside |-> 10]
    ELSE [inside |-> 10, outside |-> 9]

\* base_inside_font_size, base_outside_font_size
base_font_sizes(n) ==
    IF n < 10 THEN [inside |-> 14, outside |-> 12]
    ELSE IF n < 15 THEN [inside |-> 12, outside |-> 10]
    ELSE [inside |-> 10, outside |-> 9]

\* int(base * label_font_size_multiplier), the multiplier given in tenths
\* (for the slider's values the float product truncates to the same integer)
scaled_font_size(base, multiplier) == (base * multiplier) \div 10

\* margin: t = max(40, 2n), b = 50, l = r = 10, or 50 with labels outside
margin(n) ==
    [t |-> Max(40, 2 * n), b |-> 50,
     l |-> IF textposition(n) = "outside" THEN 50 ELSE 10,
     r |-> IF textposition(n) = "outside" THEN 50 ELSE 10]

\* the two watermark annotations of a chart: the corner mark at the
\* configured position and the large mark in the middle; x in hundredths,
\* y in units of 1e-6
watermarks(text, x, y, large_size, large_color, large_y) ==
    <<[text |-> text, x |-> x, y |-> 10000 * y, xanchor |-> "right",
       yanchor |-> "bottom", size |-> 10, color |-> "gray"],
      [text |-> text, x |-> 50, y |-> large_y, xanchor |-> "center",
       yanchor |-> "middle", size |-> large_size, color |-> large_color]>>

\* faulty variant: the large mark of the pie is put at the middle of the figure
pie_watermarks_mid_figure(n, L, style) ==
    watermarks(style.watermark_text, style.watermark_x, style.watermark_y, 45,
               "rgba(150, 150, 150, 0.1)", 500000)

pie_watermarks(n, L, style) ==
    watermarks(style.watermark_text, style.watermark_x, style.watermark_y, 45,
               "rgba(150, 150, 150, 0.1)", pie_center_y(n, L))

\* the chart specification of the pie chart for the frame actually drawn
pie_figure(df, style) ==
    LET n == Len(df)
        L == max_label_len(df)
    IN  [kind |-> "pie",
         names |-> labels_of(df),
         values |-> values_of(df),
         category_orders |-> labels_of(df),
         color_discrete_sequence |-> style.theme_seq,
         geometry |-> geometry(n, L, style.title_y_adjustment),
         textposition |-> textposition(n),
         inside_font_size |->
             scaled_font_size(base_font_sizes(n).inside, style.label_font_size_multiplier),
         outside_font_size |->
             scaled_font_size(base_font_sizes(n).outside, style.label_font_size_multiplier),
         margin |-> margin(n),
         paper_bgcolor |-> style.paper_bgcolor,
         plot_bgcolor |-> style.plot_bgcolor,
         annotations |-> pie_watermarks(n, L, style)]

create_pie_chart(df, custom_order, style) ==
    IF truthy(custom_order)
    THEN LET r == reindex(df, custom_order.labels)
         IN  IF r.exc # "none" THEN [exc |-> r.exc]
             ELSE [exc |-> "none", fig |-> pie_figure(r.df, style)]
    ELSE [exc |-> "none", fig |-> pie_figure(df, style)]

\* faulty variant: the reordering is done in place on the caller's frame
caller_frame_inplace(df, custom_order) ==
    IF truthy(custom_order) /\ reindex(df, custom_order.labels).exc = "none"
    THEN reindex(df, custom_order.labels).df
    ELSE df

\* the frame the caller holds once create_pie_chart has returned:
\* set_index, reindex and reset_index each return a new frame and the result
\* is bound to the local name df only
caller_frame_after(df, custom_order) == df

\* faulty variant: the large watermark is drawn only on the first chart of a pass:
\* the configurator reads the script's chart counter
create_bar_chart_counting(df, style) ==
    [exc |-> "none",
     fig |-> [kind |-> "bar",
              x |-> labels_of(df),
              y |-> values_of(df),
              color |-> values_of(df),
              color_continuous_scale |-> style.theme_scale,
              gridcolor |-> style.gridline_color,
              paper_bgcolor |-> style.paper_bgcolor,
              plot_bgcolor |-> style.plot_bgcolor,
              annotations |->
                  watermarks(IF charts_drawn = 0 THEN style.watermark_text ELSE "",
                             style.watermark_x, style.watermark_y, 40,
                             "rgba(150, 150, 150, 0.15)", 500000)]]

create_bar_chart(df, style) ==
    [exc |-> "none",
     fig |-> [kind |-> "bar",
              x |-> labels_of(df),
              y |-> values_of(df),
              color |-> values_of(df),
              color_continuous_scale |-> style.theme_scale,
              gridcolor |-> style.gridline_color,
              paper_bgcolor |-> style.paper_bgcolor,
              plot_bgcolor |-> style.plot_bgcolor,
              annotations |->
                  watermarks(style.watermark_text, style.watermark_x, style.watermark_y,
                             40, "rgba(150, 150, 150, 0.15)", 500000)]]

-----------------------------------------------------------------------------
(* SpecPie: create_pie_chart and create_bar_chart called on a series, a    *)
(* display order and style arguments                                       *)

NotCalled == [exc |-> "not called"]

Lab_Z == <<"Z">>

\* short series: up to MaxRows rows, repeated labels and missing values
\* (what build_sidebar can return) included
ShortFrames ==
    SeqsUpTo({[label |-> l, value |-> v] : l \in {Lab_A, Lab_B}, v \in {Num(7), NaN}},
             MaxRows)

\* display orders over the labels of the short series and a label that no
\* series carries, and no order at all
ShortOrders ==
    {[is_none |-> TRUE, labels |-> <<>>]}
        \cup {[is_none |-> FALSE, labels |-> o] :
                o \in SeqsUpTo({Lab_A, Lab_B, Lab_Z}, MaxRows)}

\* a series of n rows with distinct labels of len characters
LongLabel(i, len) ==
    [k \in 1 .. len |->
        IF k = 1 THEN "s"
        ELSE IF k = 2 THEN DigitChar(i \div 10)
        ELSE IF k = 3 THEN DigitChar(i % 10)
        ELSE "x"]
LongFrame(n, len) == [i \in 1 .. n |-> [label |-> LongLabel(i, len), value |-> Num(i)]]
LongFrames == {LongFrame(n, len) : n \in 0 .. MaxSlices, len \in {3, MaxLabelLen}}

\* the label font slider: 0.5 .. 2.0 in steps of 0.1, in tenths
FontMultipliers == 5 .. 20

DefaultStyle ==
    [theme_seq |-> "Prism", theme_scale |-> "Viridis",
     watermark_text |-> "(c) Data: Cruise Industry News",
     title_y_adjustment |-> 0, label_font_size_multiplier |-> 10,
     watermark_x |-> 100, watermark_y |-> -5,
     paper_bgcolor |-> "white", plot_bgcolor |-> "white",
     gridline_color |-> "#E8E8E8"]

MovedStyles ==
    {[DefaultStyle EXCEPT !.watermark_x = 50, !.watermark_y = 0],
     [DefaultStyle EXCEPT !.watermark_x = 0, !.watermark_y = 100,
                          !.title_y_adjustment = 10]}

InitPie ==
    /\ \/ /\ p_df \in ShortFrames
          /\ p_order \in ShortOrders
          /\ p_style \in MovedStyles \cup {DefaultStyle}
       \/ /\ p_df \in LongFrames
          /\ p_order \in {[is_none |-> TRUE, labels |-> <<>>],
                          [is_none |-> FALSE, labels |-> <<>>]}
          /\ p_style \in MovedStyles
                \cup {[DefaultStyle EXCEPT !.label_font_size_multiplier = m] :
                        m \in FontMultipliers}
    /\ p_pie = NotCalled
    /\ p_bar = NotCalled

CallPie ==
    /\ p_pie = NotCalled
    /\ p_pie' = create_pie_chart(p_df, p_order, p_style)
    /\ UNCHANGED <<p_df, p_order, p_style, p_bar, cleanVars, geomVars, passVars>>

CallBar ==
    /\ p_bar = NotCalled
    /\ p_bar' = create_bar_chart(p_df, p_style)
    /\ UNCHANGED <<p_df, p_order, p_style, p_pie, cleanVars, geomVars, passVars>>

IdlePie ==
    /\ p_df = <<>>
    /\ p_order = [is_none |-> TRUE, labels |-> <<>>]
    /\ p_style = DefaultStyle
    /\ p_pie = NotCalled
    /\ p_bar = NotCalled

-----------------------------------------------------------------------------
(* Spec: the render pass of appv2.py *)

NoFig == [kind |-> "none"]
NoSession == [k \in {} |-> 0]

\* the slider positions the pass model samples: both ends and the default
SliderStops == {-10, 0, 10}

pie_ready == pie_file # NoFile
bar_ready == bar_file # NoFile

Crash(e) ==
    /\ pc' = "crashed"
    /\ exception' = e

\* DARK_THEME and LIGHT_THEME, the entries the script reads
DARK_THEME ==
    [name |-> "Dark", bg_color |-> "#0E1117",
     text_color |-> "#FAFAFA", sidebar_header |-> "#4FC3F7",
     chart_paper_bg |-> "#1E1E1E", chart_plot_bg |-> "#1F1E1E",
     gridline_color |-> "#0C0C0C"]
LIGHT_THEME ==
    [name |-> "Light", bg_color |-> "#FFFFFF",
     text_color |-> "#262730", sidebar_header |-> "#0068C9",
     chart_paper_bg |-> "#FFFFFF", chart_plot_bg |-> "#FFFFFF",
     gridline_color |-> "#E8E8E8"]

\* THEME_COLORS = DARK_THEME if st.session_state.theme_mode == "Dark" else LIGHT_THEME
THEME_COLORS(ss) == IF ss.theme_mode = "Dark" THEN DARK_THEME ELSE LIGHT_THEME

\* if 'theme_mode' not in st.session_state: st.session_state.theme_mode = "Dark"
init_theme(ss) ==
    IF "theme_mode" \in DOMAIN ss THEN ss ELSE ss @@ [theme_mode |-> "Dark"]

\* faulty variant: the button only ever switches to the light theme
toggle_theme_to_light(ss) == [ss EXCEPT !.theme_mode = "Light"]

\* st.session_state.theme_mode = "Light" if st.session_state.theme_mode == "Dark"
\* else "Dark"
toggle_theme(ss) ==
    [ss EXCEPT !.theme_mode = IF @ = "Dark" THEN "Light" ELSE "Dark"]

\* apply_theme_css(theme): the colours of the page the style sheet sets
NoCss == [color_scheme |-> "none"]
apply_theme_css(theme) ==
    [color_scheme |-> IF theme.name = "Dark" THEN "dark" ELSE "light",
     background_color |-> theme.bg_color,
     color |-> theme.text_color]

\* the 18 fields of the chart style; sliders in tenths (multipliers, title
\* adjustment) and in hundredths (watermark positions)
StyleFields ==
    {"pie_title_y_adjustment", "pie_label_font_multiplier", "pie_title_text",
     "bar_title_text", "pie_font_color_inside", "pie_font_color_outside",
     "pie_title_font_color", "bar_title_font_color", "bar_x_label", "bar_y_label",
     "bar_axis_font_color", "pie_aspect_ratio", "bar_aspect_ratio",
     "chart_size_multiplier", "pie_watermark_x", "pie_watermark_y",
     "bar_watermark_x", "bar_watermark_y"}

\* the default of every style field, the colours taken from the theme
style_defaults(colors) ==
    [pie_title_y_adjustment    |-> 0,
     pie_label_font_multiplier |-> 10,
     pie_title_text            |-> "Cruise Line Capacity Distribution",
     bar_title_text            |-> "Caribbean Cruise Capacity by Year",
     pie_font_color_inside     |-> "#FFFFFF",
     pie_font_color_outside    |-> colors.text_color,
     pie_title_font_color      |-> colors.sidebar_header,
     bar_title_font_color      |-> colors.sidebar_header,
     bar_x_label               |-> "",
     bar_y_label               |-> "",
     bar_axis_font_color       |-> colors.sidebar_header,
     pie_aspect_ratio          |-> "3:2",
     bar_aspect_ratio          |-> "3:2",
     chart_size_multiplier     |-> 10,
     pie_watermark_x           |-> 100,
     pie_watermark_y           |-> -5,
     bar_watermark_x           |-> 100,
     bar_watermark_y           |-> -15]

style_of(ss) == [f \in StyleFields \cap DOMAIN ss |-> ss[f]]

\* faulty variant: the initialisation assigns every field on every pass
init_session_overwriting(ss) ==
    [f \in DOMAIN ss \cup StyleFields |->
        IF f \in StyleFields THEN style_defaults(THEME_COLORS(ss))[f] ELSE ss[f]]

\* the initialisation of the advanced settings: a field is set only when it
\* is not in the session state yet
init_session(ss) ==
    [f \in DOMAIN ss \cup StyleFields |->
        IF f \in DOMAIN ss THEN ss[f] ELSE style_defaults(THEME_COLORS(ss))[f]]

\* faulty variant: the reset keeps what the widgets wrote in this pass
reset_to_defaults_keeping(ss) == ss

\* the assignments under the button "Reset to Defaults"
reset_to_defaults(ss) ==
    [f \in DOMAIN ss |->
        IF f \in StyleFields THEN style_defaults(THEME_COLORS(ss))[f] ELSE ss[f]]

\* what the user does to the advanced widgets in one pass: nothing, or one
\* widget is given a new value (every interaction starts a pass)
NoChange == <<"none", 0>>
WidgetChanges ==
    IF regime = "data"
    THEN {NoChange} \cup {<<"pie_title_y_adjustment", a>> : a \in SliderStops}
    ELSE {NoChange}
         \cup {<<"pie_title_y_adjustment", a>> : a \in {0, 10}}
         \cup {<<"pie_label_font_multiplier", m>> : m \in {7, 10}}
         \cup {<<"pie_watermark_x", x>> : x \in {50, 100}}
         \cup {<<"pie_font_color_outside", c>> : c \in {"#FF0000"}}
         \cup {<<"bar_title_text", t>> : t \in {"Capacity"}}

\* the widgets of the block "if show_advanced": each returns its value
\* argument, the field itself, unless the user has just changed it, and the
\* result is assigned to the field
advanced_widgets(ss, change) ==
    [f \in DOMAIN ss |-> IF f = change[1] THEN change[2] ELSE ss[f]]

\* the theme is initialised and the theme button is offered:
\* if st.button(...): theme_mode is flipped and st.rerun() ends the pass
ThemeSwitcher ==
    /\ pc = "start"
    /\ \E pressed \in (IF regime = "data" THEN {FALSE} ELSE BOOLEAN) :
          LET ss == init_theme(session_state)
          IN  IF pressed
              THEN /\ session_state' = toggle_theme(ss)
                   /\ pc' = "rerun"
                   /\ page_css' = page_css
              ELSE /\ session_state' = ss
                   /\ pc' = "upload"
                   /\ page_css' = apply_theme_css(THEME_COLORS(ss))
    /\ UNCHANGED <<pie_file, bar_file, pie, bar, fig_pie, fig_bar, charts_drawn, rendered,
                   previewed, messages, exception,
                   cleanVars, geomVars, pieVars, widgets, regime>>

\* st.sidebar.file_uploader, twice
Upload ==
    /\ pc = "upload"
    /\ pie_file' \in (IF regime = "data" THEN PieFiles ELSE {Workbook(Grid_Cruise)})
                        \cup {NoFile}
    /\ bar_file' \in (IF regime = "data" THEN BarFiles ELSE {Workbook(Grid_Years)})
                        \cup {NoFile}
    /\ pc' = "advanced"
    /\ UNCHANGED <<session_state, pie, bar, fig_pie, fig_bar, charts_drawn, rendered,
                   previewed, messages, exception,
                   cleanVars, geomVars, pieVars, widgets, regime,
                   page_css>>

\* "Show Advanced Settings", the initialisation of the style fields and the
\* widgets, which write the session state only when the box is ticked
Advanced ==
    /\ pc = "advanced"
    /\ \E show_advanced \in BOOLEAN :
          IF show_advanced
          THEN \E change \in WidgetChanges :
                  /\ session_state' = advanced_widgets(init_session(session_state), change)
                  /\ pc' = "reset_button"
          ELSE /\ session_state' = init_session(session_state)
               /\ pc' = "load_pie"
    /\ UNCHANGED <<pie_file, bar_file, pie, bar, fig_pie, fig_bar, charts_drawn, rendered,
                   previewed, messages, exception,
                   cleanVars, geomVars, pieVars, widgets, regime,
                   page_css>>

\* if st.sidebar.button("Reset to Defaults"): ...; st.rerun()
ResetButton ==
    /\ pc = "reset_button"
    /\ \E pressed \in BOOLEAN :
          IF pressed
          THEN /\ session_state' = reset_to_defaults(session_state)
               /\ widgets' = style_of(session_state)
               /\ pc' = "rerun"
          ELSE /\ session_state' = session_state
               /\ widgets' = widgets
               /\ pc' = "load_pie"
    /\ UNCHANGED <<pie_file, bar_file, pie, bar, fig_pie, fig_bar, charts_drawn, rendered,
                   previewed, messages, exception, cleanVars, geomVars, pieVars, regime,
                   page_css>>

ColumnChoices(grid, has_header) ==
    LET k == Len(read_excel(grid, has_header).columns)
    IN  IF k = 0 THEN {0} ELSE 1 .. k

\* every result build_sidebar can give for a workbook, over the user's
\* choices of sheet, header flag, columns and display order
results_for(chart_key, grid, has_header) ==
    UNION {
        LET probe == build_sidebar(chart_key, grid, has_header, l, v, <<>>)
        IN  IF probe.exc # "none" THEN {probe}
            ELSE {build_sidebar(chart_key, grid, has_header, l, v, o) :
                    o \in IF chart_key = "pie"
                          THEN Selections(all_labs(grid, has_header, l, v))
                          ELSE {<<>>}}
        : l \in ColumnChoices(grid, has_header), v \in ColumnChoices(grid, has_header)}

sidebar_results(chart_key, file) ==
    UNION {results_for(chart_key, file.sheets[s].grid, hh) :
             s \in DOMAIN file.sheets, hh \in BOOLEAN}

\* if pie_ready: xl_pie = pd.ExcelFile(pie_file); ... = build_sidebar("pie", ...)
LoadPie ==
    /\ pc = "load_pie"
    /\ IF ~pie_ready
       THEN pie' = pie /\ pc' = "load_bar" /\ UNCHANGED exception
       ELSE IF ~pie_file.parses      \* pd.ExcelFile raises (BadZipFile, ValueError)
       THEN pie' = pie /\ Crash("ExcelFileError")
       ELSE \E r \in sidebar_results("pie", pie_file) :
               IF r.exc # "none"
               THEN pie' = pie /\ Crash(r.exc)
               ELSE pie' = r /\ pc' = "load_bar" /\ UNCHANGED exception
    /\ UNCHANGED <<session_state, pie_file, bar_file, bar, fig_pie, fig_bar, charts_drawn,
                   rendered, previewed, messages,
                   cleanVars, geomVars, pieVars, widgets, regime,
                   page_css>>

\* if bar_ready: xl_bar = pd.ExcelFile(bar_file); ... = build_sidebar("bar", ...)
LoadBar ==
    /\ pc = "load_bar"
    /\ IF ~bar_ready
       THEN bar' = bar /\ pc' = "render_pie" /\ UNCHANGED exception
       ELSE IF ~bar_file.parses
       THEN bar' = bar /\ Crash("ExcelFileError")
       ELSE \E r \in sidebar_results("bar", bar_file) :
               IF r.exc # "none"
               THEN bar' = bar /\ Crash(r.exc)
               ELSE bar' = r /\ pc' = "render_pie" /\ UNCHANGED exception
    /\ UNCHANGED <<session_state, pie_file, bar_file, pie, fig_pie, fig_bar, charts_drawn,
                   rendered, previewed, messages,
                   cleanVars, geomVars, pieVars, widgets, regime,
                   page_css>>

pie_style ==
    [theme_seq |-> pie.theme,
     watermark_text |-> pie.copyright,
     title_y_adjustment |-> session_state.pie_title_y_adjustment,
     label_font_size_multiplier |-> session_state.pie_label_font_multiplier,
     watermark_x |-> session_state.pie_watermark_x,
     watermark_y |-> session_state.pie_watermark_y,
     paper_bgcolor |-> THEME_COLORS(session_state).chart_paper_bg,
     plot_bgcolor |-> THEME_COLORS(session_state).chart_plot_bg]

bar_style ==
    [theme_scale |-> bar.theme,
     watermark_text |-> bar.copyright,
     watermark_x |-> session_state.bar_watermark_x,
     watermark_y |-> session_state.bar_watermark_y,
     paper_bgcolor |-> THEME_COLORS(session_state).chart_paper_bg,
     plot_bgcolor |-> THEME_COLORS(session_state).chart_plot_bg,
     gridline_color |-> THEME_COLORS(session_state).gridline_color]

\* if pie_ready: fig_pie = create_pie_chart(...); charts_drawn += 1
RenderPie ==
    /\ pc = "render_pie"
    /\ IF ~pie_ready
       THEN UNCHANGED <<fig_pie, charts_drawn, exception>> /\ pc' = "render_bar"
       ELSE LET r == create_pie_chart(pie.cleaned, pie.order, pie_style)
            IN  IF r.exc # "none"
                THEN UNCHANGED <<fig_pie, charts_drawn>> /\ Crash(r.exc)
                ELSE /\ fig_pie' = r.fig
                     /\ charts_drawn' = charts_drawn + 1
                     /\ pc' = "render_bar"
                     /\ UNCHANGED exception
    /\ pie' = IF pie_ready
              THEN [pie EXCEPT !.cleaned = caller_frame_after(pie.cleaned, pie.order)]
              ELSE pie
    /\ UNCHANGED <<session_state, pie_file, bar_file, bar, fig_bar, rendered,
                   previewed, messages, cleanVars, geomVars, pieVars, widgets, regime,
                   page_css>>

\* if bar_ready: fig_bar = create_bar_chart(...); charts_drawn += 1
RenderBar ==
    /\ pc = "render_bar"
    /\ IF ~bar_ready
       THEN UNCHANGED <<fig_bar, charts_drawn, exception>> /\ pc' = "layout"
       ELSE LET r == create_bar_chart(bar.cleaned, bar_style)
            IN  IF r.exc # "none"
                THEN UNCHANGED <<fig_bar, charts_drawn>> /\ Crash(r.exc)
                ELSE /\ fig_bar' = r.fig
                     /\ charts_drawn' = charts_drawn + 1
                     /\ pc' = "layout"
                     /\ UNCHANGED exception
    /\ UNCHANGED <<session_state, pie_file, bar_file, pie, bar, fig_pie, rendered,
                   previewed, messages, cleanVars, geomVars, pieVars, widgets, regime,
                   page_css>>

\* faulty variant: a single chart is always taken to be the pie chart
figures_to_render_pie_first(drawn, p_ready, f_pie, f_bar) ==
    IF drawn = 1 THEN <<f_pie>> ELSE <<f_pie, f_bar>>

\* the figures st.plotly_chart is given when at least one chart was drawn
figures_to_render(drawn, p_ready, f_pie, f_bar) ==
    IF drawn = 1
    THEN (IF p_ready THEN <<f_pie>> ELSE <<f_bar>>)
    ELSE <<f_pie, f_bar>>

\* "Decide layout": the prompt, one chart full width, or two columns
Layout ==
    /\ pc = "layout"
    /\ IF charts_drawn = 0
       THEN /\ messages' = messages \cup {"info: upload at least one Excel file"}
            /\ UNCHANGED rendered
       ELSE /\ rendered' = figures_to_render(charts_drawn, pie_ready, fig_pie, fig_bar)
            /\ UNCHANGED messages
    /\ pc' = "preview"
    /\ UNCHANGED <<session_state, pie_file, bar_file, pie, bar, fig_pie, fig_bar,
                   charts_drawn, previewed, exception,
                   cleanVars, geomVars, pieVars, widgets, regime,
                   page_css>>

\* "View mapped data"
Preview ==
    /\ pc = "preview"
    /\ previewed' = (IF pie_ready THEN <<pie.cleaned>> ELSE <<>>)
                        \o (IF bar_ready THEN <<bar.cleaned>> ELSE <<>>)
    /\ pc' = "footer"
    /\ UNCHANGED <<session_state, pie_file, bar_file, pie, bar, fig_pie, fig_bar,
                   charts_drawn, rendered, messages, exception,
                   cleanVars, geomVars, pieVars, widgets, regime,
                   page_css>>

\* if st.sidebar.checkbox("Auto-refresh (30 s)"): time.sleep(30); st.rerun()
\* and, when the box is not ticked, the footer
Footer ==
    /\ pc = "footer"
    /\ \E auto_refresh \in BOOLEAN :
          IF auto_refresh
          THEN pc' = "sleeping" /\ UNCHANGED messages
          ELSE pc' = "done" /\ messages' = messages \cup {"footer"}
    /\ UNCHANGED <<session_state, pie_file, bar_file, pie, bar, fig_pie, fig_bar,
                   charts_drawn, rendered, previewed, exception,
                   cleanVars, geomVars, pieVars, widgets, regime,
                   page_css>>

\* the next pass: the script runs again from the top, only the session state
\* is kept
NewPass ==
    /\ pc' = "start"
    /\ pie_file' = NoFile
    /\ bar_file' = NoFile
    /\ pie' = NotLoaded
    /\ bar' = NotLoaded
    /\ fig_pie' = NoFig
    /\ fig_bar' = NoFig
    /\ charts_drawn' = 0
    /\ rendered' = <<>>
    /\ previewed' = <<>>
    /\ messages' = {}
    /\ exception' = "none"
    /\ widgets' = NoSession
    /\ page_css' = NoCss
    /\ UNCHANGED <<session_state, cleanVars, geomVars, pieVars, regime>>

\* faulty variant: a user action starts a pass next to the one still running
Rerun_overlapping ==
    /\ pc \in {"load_pie", "load_bar", "done", "crashed"}
    /\ NewPass

\* a user action (an upload, a changed control) after the script has ended
Rerun ==
    /\ pc \in {"done", "crashed"}
    /\ NewPass

\* time.sleep(30) returns and st.rerun() starts the script again
AutoRefresh ==
    /\ pc = "sleeping"
    /\ NewPass

\* st.rerun() of the theme button and of the reset button
ScriptRerun ==
    /\ pc = "rerun"
    /\ NewPass

IdleClean == series = <<>> /\ clean_out = <<>> /\ clean_done = TRUE
IdleGeom == g_n = 0 /\ g_L = NanLen /\ g_adj = 0 /\ g_out = NoGeom
PassStart ==
    /\ pc = "start"
    /\ session_state = NoSession
    /\ pie_file = NoFile
    /\ bar_file = NoFile
    /\ pie = NotLoaded
    /\ bar = NotLoaded
    /\ fig_pie = NoFig
    /\ fig_bar = NoFig
    /\ charts_drawn = 0
    /\ rendered = <<>>
    /\ previewed = <<>>
    /\ messages = {}
    /\ exception = "none"
    /\ widgets = NoSession
    /\ page_css = NoCss

IdlePass == PassStart /\ regime = "data"

Init == IdlePass /\ IdleClean /\ IdleGeom /\ IdlePie

Next ==
    \/ ThemeSwitcher
    \/ Upload
    \/ Advanced
    \/ ResetButton
    \/ LoadPie
    \/ LoadBar
    \/ RenderPie
    \/ RenderBar
    \/ Layout
    \/ Preview
    \/ Footer
    \/ Rerun
    \/ AutoRefresh
    \/ ScriptRerun

Spec == Init /\ [][Next]_vars

InitCleanSpec == InitClean /\ IdleGeom /\ IdlePass /\ IdlePie
NextClean == Clean
SpecClean == InitCleanSpec /\ [][NextClean]_vars

InitGeomSpec == InitGeom /\ IdleClean /\ IdlePass /\ IdlePie
NextGeom == Configure
SpecGeom == InitGeomSpec /\ [][NextGeom]_vars

\* Spec with the scheduling of the script: time.sleep(30) returns and the
\* st.rerun() after it is executed
SpecLive == Spec /\ WF_vars(AutoRefresh)

\* the same pass, the user working the theme button and the advanced
\* widgets on the two sample workbooks
InitSession == PassStart /\ regime = "style" /\ IdleClean /\ IdleGeom /\ IdlePie
SpecSession == InitSession /\ [][Next]_vars

InitPieSpec == InitPie /\ IdleClean /\ IdleGeom /\ IdlePass
NextPie == CallPie \/ CallBar
SpecPie == InitPieSpec /\ [][NextPie]_vars

-----------------------------------------------------------------------------
(* Properties *)

after_render_pie == pc \in {"render_bar", "layout", "preview", "footer", "sleeping", "done"}
pie_loaded == pie # NotLoaded
bar_loaded == bar # NotLoaded

\* C1: every row whose value cell is missing or does not parse is absent
\* from the cleaned series build_sidebar returns, and the Year Series
\* (2017, "500,000"), (2018, "abc"), (2019, "600,000") cleans to
\* (2017, 500000), (2019, 600000).
C1_UnparseableRowsDropped ==
    /\ pie_loaded => \A i \in DOMAIN pie.cleaned : pie.cleaned[i].value # NaN
    /\ bar_loaded => \A i \in DOMAIN bar.cleaned : bar.cleaned[i].value # NaN
    /\ (bar_loaded /\ bar_file = Workbook(Grid_Years) /\ bar.label = Hdr_L /\ bar.value = Hdr_C)
          => bar.cleaned = <<[label |-> Txt_2017, value |-> Num(500000)],
                             [label |-> Txt_2019, value |-> Num(600000)]>>

\* the characters the claim speaks of: digits, commas, currency symbols, '.'
MoneyChars == Digits \cup {",", "$", "."}

\* the value of a text read left to right, skipping what is not a digit:
\* [seen the point, mantissa, digits after the point]
RECURSIVE ScanDecimal(_, _)
ScanDecimal(t, acc) ==
    IF t = <<>> THEN acc
    ELSE LET c == Head(t)
         IN  ScanDecimal(Tail(t),
                IF c = "." THEN [acc EXCEPT !.point = TRUE]
                ELSE IF c \in Digits
                THEN [point |-> acc.point,
                      m |-> 10 * acc.m + DigitVal(c),
                      e |-> IF acc.point THEN acc.e + 1 ELSE acc.e]
                ELSE acc)

DecimalOf(t) ==
    LET r == ScanDecimal(t, [point |-> FALSE, m |-> 0, e |-> 0])
    IN  Normalise(r.m, r.e)

DigitCount(t) == Cardinality({i \in DOMAIN t : t[i] \in Digits})
DotCount(t) == Cardinality({i \in DOMAIN t : t[i] = "."})

\* C2: a cell of digits, commas, currency symbols and at most one '.' cleans
\* to the number its digits and point spell ("$12,345.00" gives 12345.0); a
\* cell whose remainder is empty or holds more than one '.' cleans to a
\* missing value.
C2_CleanValue ==
    clean_done =>
        /\ DOMAIN clean_out = DOMAIN series
        /\ \A i \in DOMAIN series :
              LET t == series[i]
              IN  /\ (t # NA /\ Range(t) \subseteq MoneyChars /\ DotCount(t) <= 1
                        /\ DigitCount(t) > 0)
                        => clean_out[i] = DecimalOf(t)
                  /\ (t = NA \/ DigitCount(t) + DotCount(t) = 0 \/ DotCount(t) > 1)
                        => clean_out[i] = NaN
                  /\ t = Txt_12345 => clean_out[i] = Num(12345)

C2_Witness ==
    /\ clean_done
    /\ series = <<Txt_12345>>
    /\ clean_out = <<Num(12345)>>

\* C3: when the uploaded file cannot be parsed as a spreadsheet the pass
\* shows an error message, renders no chart and ends without an uncaught
\* exception.
C3_LoadFailureSurfaced ==
    LET failed == \/ pie_ready /\ ~pie_file.parses /\ pc \notin {"advanced", "reset_button", "rerun", "load_pie"}
                  \/ bar_ready /\ ~bar_file.parses
                        /\ pc \notin {"advanced", "reset_button", "rerun", "load_pie", "load_bar"}
                        /\ exception \in {"none", "ExcelFileError"}
    IN  failed =>
            /\ exception = "none"
            /\ \E m \in messages : m = "error: the file could not be loaded"
            /\ rendered = <<>>

\* C4: when the selected columns do not exist or cleaning leaves no row the
\* pass shows a message and withholds the chart: no configurator runs on an
\* empty series, no figure reaches the renderer, no exception escapes.
C4_ShapeErrorWithheld ==
    /\ exception \notin {"KeyError", "StreamlitAPIException"}
    /\ (pie_loaded /\ pie.cleaned = <<>>) => (fig_pie = NoFig /\ rendered = <<>>)
    /\ (bar_loaded /\ bar.cleaned = <<>>) => (fig_bar = NoFig /\ rendered = <<>>)
    /\ (pc = "done" /\ ((pie_loaded /\ pie.cleaned = <<>>) \/ (bar_loaded /\ bar.cleaned = <<>>)))
          => messages \ {"footer"} # {}

\* the order is a permutation of the label set of the frame
is_permutation_of_labels(order, df) ==
    /\ Range(order) = Range(labels_of(df))
    /\ ~has_duplicates(order)

create_pie_chart_called ==
    pie_loaded /\ (after_render_pie \/ (pc = "crashed" /\ exception = "ValueError"))

\* C5: for a custom display order that is a permutation of the label set of
\* the series, the labels of the chart specification (rows and
\* category_orders) are the custom order, each label with its own value.
C5_CustomOrderRespected ==
    (create_pie_chart_called /\ is_permutation_of_labels(pie.order.labels, pie.cleaned))
        => /\ fig_pie # NoFig
           /\ fig_pie.names = pie.order.labels
           /\ fig_pie.category_orders = pie.order.labels
           /\ \A i \in DOMAIN fig_pie.names :
                 \A k \in DOMAIN pie.cleaned :
                    pie.cleaned[k].label = fig_pie.names[i]
                        => fig_pie.values[i] = pie.cleaned[k].value

\* the scenario of C6: the two cruise lines, read with the header row, the
\* display order left alone (the default order) or emptied
cruise_scenario ==
    /\ pie_loaded
    /\ labels_of(pie.cleaned) = <<Lab_Royal, Lab_Carnival>>
    /\ values_of(pie.cleaned) = clean_capacity_column(<<Txt_1200000, Txt_980500>>)
    /\ pie.order.labels \in {<<>>, <<Lab_Royal, Lab_Carnival>>}
    /\ fig_pie # NoFig

\* C6 as stated: the values are 1200000 and 980500 in source order and the
\* horizontal gutter is 0.184, the longest label having 16 characters.
C6_Scenario_AsStated ==
    cruise_scenario =>
        /\ fig_pie.values = <<Num(1200000), Num(980500)>>
        /\ max_label_len(pie.cleaned) = 16
        /\ fig_pie.geometry.h_gutter = 1840

\* C6 amended: the values are 1200000 and 980500 in source order, the longest
\* label ("Royal Caribbean") has 15 characters and the horizontal gutter is
\* 0.10 + 0.005*15 + 0.002*2 = 0.179.
C6_Scenario ==
    cruise_scenario =>
        /\ fig_pie.values = <<Num(1200000), Num(980500)>>
        /\ fig_pie.names = <<Lab_Royal, Lab_Carnival>>
        /\ max_label_len(pie.cleaned) = 15
        /\ fig_pie.geometry.h_gutter = 1790

C6_Witness ==
    /\ cruise_scenario
    /\ pc = "done"
    /\ rendered = <<fig_pie>>
    /\ fig_pie.geometry.h_gutter = 1790

\* C7: the horizontal gutter never exceeds 0.25 and, for a numeric label
\* length, does not decrease when the slice count or the label length grows
\* by one.
C7_HGutterMonotone ==
    g_out # NoGeom =>
        /\ g_out.h_gutter <= 2500
        /\ g_L # NanLen =>
              /\ g_out.h_gutter <= h_gutter(g_n + 1, g_L)
              /\ g_out.h_gutter <= h_gutter(g_n, g_L + 1)
              /\ h_gutter(g_n - 1, g_L) <= g_out.h_gutter
              /\ g_L > 0 => h_gutter(g_n, g_L - 1) <= g_out.h_gutter

C7_Witness ==
    /\ g_out # NoGeom
    /\ g_L # NanLen
    /\ 1000 + 50 * g_L + 20 * g_n > 2500
    /\ g_out.h_gutter = 2500
    /\ h_gutter(g_n - 1, g_L) < 2500

width_of(g) == g.x_domain[2] - g.x_domain[1]
height_of(g) == g.y_domain[2] - g.y_domain[1]
tier_cap(n) == IF n <= 8 THEN 2000 ELSE IF n <= 15 THEN 2500 ELSE 3000

\* C8: the drawing domain x in [h, 1-h], y in [v_b, 1-v_t] does not grow when
\* the slice count or the label length grows by one (tier boundaries
\* included); v_t stays within its tier cap and v_b within 0.12, so the width
\* is at least 0.5 and the height at least 0.58.
C8_DomainShrinks ==
    g_out # NoGeom =>
        /\ g_out.x_domain = <<g_out.h_gutter, 10000 - g_out.h_gutter>>
        /\ g_out.y_domain = <<g_out.v_gutter_b, 10000 - g_out.v_gutter_t>>
        /\ g_out.v_gutter_t <= tier_cap(g_n)
        /\ g_out.v_gutter_b <= 1200
        /\ width_of(g_out) >= 5000
        /\ height_of(g_out) >= 5800
        /\ g_L # NanLen =>
              /\ width_of(geometry(g_n + 1, g_L, g_adj)) <= width_of(g_out)
              /\ width_of(geometry(g_n, g_L + 1, g_adj)) <= width_of(g_out)
              /\ height_of(geometry(g_n + 1, g_L, g_adj)) <= height_of(g_out)
              /\ height_of(geometry(g_n, g_L + 1, g_adj)) <= height_of(g_out)

C8_Witness ==
    /\ g_out # NoGeom
    /\ g_n = 15
    /\ g_L # NanLen
    /\ g_out.v_gutter_t = 2500
    /\ height_of(geometry(g_n + 1, g_L, g_adj)) < height_of(g_out)

clamp(x, lo, hi) == IF x < lo THEN lo ELSE IF x > hi THEN hi ELSE x

\* C9: the title's vertical position is
\* clamp((1 - v_t) + f*v_t + a*0.5*v_t, 0.02, 0.98), f = 0.35 / 0.50 / 0.60 for
\* n <= 8 / n <= 15 / n > 15, for every adjustment a in [-1, 1]; it lies in
\* [0.02, 0.98].
C9_TitlePosition ==
    g_out # NoGeom =>
        LET vt == g_out.v_gutter_t
            f == IF g_n <= 8 THEN 35 ELSE IF g_n <= 15 THEN 50 ELSE 60
        IN  /\ g_out.title_y
                  = clamp(100 * (10000 - vt) + f * vt + g_adj * 5 * vt, 20000, 980000)
            /\ g_out.title_y >= 20000
            /\ g_out.title_y <= 980000

C9_Witness ==
    /\ g_out # NoGeom
    /\ g_n > 15
    /\ g_adj = 10
    /\ 100 * (10000 - g_out.v_gutter_t) + 110 * g_out.v_gutter_t > 980000
    /\ g_out.title_y = 980000

uploads == (IF pie_ready THEN 1 ELSE 0) + (IF bar_ready THEN 1 ELSE 0)
after_layout == pc \in {"preview", "footer", "sleeping", "done"}
prompt_shown == "info: upload at least one Excel file" \in messages

C12_Witness_NoFile ==
    /\ pc = "done"
    /\ uploads = 0
    /\ prompt_shown
    /\ rendered = <<>>

\* the positions of one pass, in the order of the script
pass_order ==
    <<"start", "upload", "advanced", "reset_button", "load_pie", "load_bar",
      "render_pie", "render_bar", "layout", "preview", "footer">>
position(p) == CHOOSE i \in DOMAIN pass_order : pass_order[i] = p
pass_over == {"done", "crashed", "sleeping", "rerun"}

C13_Step ==
    /\ pc' = "start" => pc \in pass_over
    /\ pc \in pass_over => pc' = "start"
    /\ pc \in Range(pass_order) =>
           \/ pc' \in pass_over
           \/ pc' \in Range(pass_order) /\ position(pc') > position(pc)
    /\ (pc \in Range(pass_order) /\ position(pc) >= position("load_pie")
            /\ pc' \in Range(pass_order)) => position(pc') = position(pc) + 1
    /\ pc' \in {"done", "sleeping"} => pc = "footer"
    /\ pc' = "sleeping" =>
           /\ rendered' = rendered /\ Len(rendered) = uploads
           /\ Len(previewed) = uploads
           /\ "footer" \notin messages'
    /\ pc = "sleeping" => (pc' = "start" /\ rendered' = <<>>)
    /\ pc' = "done" => "footer" \in messages'

after_init == pc \in Range(pass_order) /\ position(pc) > position("advanced")

\* the style fields that have a value keep it in this step
style_kept ==
    \A f \in StyleFields \cap DOMAIN session_state :
        f \in DOMAIN session_state' /\ session_state'[f] = session_state[f]

\* C14: the style configuration lives in the session state and changes only
\* through the advanced widgets: after the initialisation block of a pass
\* all 18 style fields are defined, the initialisation never overwrites a
\* field that has a value, and every step of a pass whose advanced settings
\* are hidden (the theme button, the uploads, auto-refresh among them)
\* leaves every style field unchanged, the colour fields taken from the
\* theme of the first initialisation included.
C14_StyleChangesOnlyByUser ==
    /\ [](after_init => StyleFields \subseteq DOMAIN session_state)
    /\ [][(pc # "reset_button" /\ pc' # "reset_button") => style_kept]_vars

C14_Witness ==
    /\ pc = "sleeping"
    /\ pie_ready
    /\ session_state.theme_mode = "Light"
    /\ session_state.pie_font_color_outside = DARK_THEME.text_color
    /\ session_state.pie_title_y_adjustment = 10

\* C19: pressing "Reset to Defaults", offered only while the advanced
\* settings are shown, sets each of the 18 style fields to its default, the
\* colour fields to the colours of the theme of this pass, whatever the
\* widgets wrote earlier in the pass; theme_mode is left as it is, the pass
\* ends with a re-run and renders nothing, and the next pass starts from the
\* default style.
C19_ResetStep ==
    /\ pc' = "reset_button" => pc = "advanced"
    /\ (pc = "reset_button" /\ pc' = "rerun") =>
           /\ style_of(session_state') = style_defaults(THEME_COLORS(session_state))
           /\ session_state'.theme_mode = session_state.theme_mode
           /\ widgets' = style_of(session_state)
           /\ rendered' = <<>>
    /\ pc = "rerun" => (pc' = "start" /\ session_state' = session_state)

C19_ResetToDefaults == [][C19_ResetStep]_vars

C19_Witness ==
    /\ pc = "rerun"
    /\ DOMAIN widgets # {}
    /\ widgets.pie_title_y_adjustment = 10
    /\ widgets.pie_font_color_outside = "#FF0000"
    /\ session_state.theme_mode = "Light"
    /\ style_of(session_state) = style_defaults(LIGHT_THEME)

pie_called == p_pie # NotCalled
bar_called == p_bar # NotCalled
has_absent_label(order, df) ==
    \E i \in DOMAIN order : order[i] \notin Range(labels_of(df))

\* C15: for a display order that holds a label the series does not carry,
\* create_pie_chart does not fail: the series drawn has one row per label of
\* the order, the absent label with a missing value; that row counts in the
\* slice count n and its label in L, which set gutters, title tier and
\* font tier; labels of the series that the order leaves out are not drawn.
C15_AbsentLabelInOrder ==
    (pie_called /\ truthy(p_order) /\ has_absent_label(p_order.labels, p_df)) =>
        /\ p_pie.exc = "none"
        /\ p_pie.fig.names = p_order.labels
        /\ \A i \in DOMAIN p_order.labels :
              IF p_order.labels[i] \in Range(labels_of(p_df))
              THEN \E k \in DOMAIN p_df : /\ p_df[k].label = p_order.labels[i]
                                          /\ p_pie.fig.values[i] = p_df[k].value
              ELSE p_pie.fig.values[i] = NaN
        /\ LET n == Len(p_order.labels)
               L == MaxOf([i \in DOMAIN p_order.labels |-> Len(p_order.labels[i])])
           IN  /\ p_pie.fig.geometry = geometry(n, L, p_style.title_y_adjustment)
               /\ p_pie.fig.textposition = textposition(n)
               /\ p_pie.fig.inside_font_size =
                     scaled_font_size(base_font_sizes(n).inside,
                                      p_style.label_font_size_multiplier)

\* the same, for series whose labels are pairwise distinct
C15_DistinctLabels ==
    has_duplicates(labels_of(p_df)) \/ C15_AbsentLabelInOrder

C15_DistinctLabels_Witness ==
    /\ pie_called
    /\ labels_of(p_df) = <<Lab_A, Lab_B>>
    /\ p_order.labels = <<Lab_Z, Lab_A>>
    /\ p_pie.exc = "none"
    /\ p_pie.fig.values = <<NaN, p_df[1].value>>

\* C20: with an empty display order, or none, nothing is reindexed: the
\* chart shows every category of the series in source order, and it is
\* empty only when the series is empty.
C20_EmptyOrderShowsAll ==
    (pie_called /\ (p_order.is_none \/ p_order.labels = <<>>)) =>
        /\ p_pie.exc = "none"
        /\ p_pie.fig.names = labels_of(p_df)
        /\ p_pie.fig.values = values_of(p_df)
        /\ p_pie.fig.category_orders = labels_of(p_df)
        /\ (p_pie.fig.names = <<>>) <=> (p_df = <<>>)
        /\ p_pie.fig.geometry =
              geometry(Len(p_df), max_label_len(p_df), p_style.title_y_adjustment)

C20_Witness ==
    /\ pie_called
    /\ ~p_order.is_none
    /\ p_order.labels = <<>>
    /\ labels_of(p_df) = <<Lab_B, Lab_B>>
    /\ p_pie.exc = "none"
    /\ p_pie.fig.names = <<Lab_B, Lab_B>>

\* the slices the pie chart was drawn with
drawn == Len(p_pie.fig.names)

\* the integer part of base * multiplier / 10
truncated(k, base, multiplier) ==
    10 * k <= base * multiplier /\ base * multiplier < 10 * (k + 1)

\* C16: label policy of create_pie_chart: up to ten slices the label
\* position is automatic, above ten every label is placed outside; the base
\* font sizes are 14/12 below ten slices, 12/10 from ten to fourteen and
\* 10/9 from fifteen on, never larger for more slices; the sizes emitted
\* are the base sizes times the multiplier, truncated to an integer.
C16_LabelPolicy ==
    (pie_called /\ p_pie.exc = "none") =>
        LET n == drawn
            m == p_style.label_font_size_multiplier
            base == IF n \in 0 .. 9 THEN <<14, 12>>
                    ELSE IF n \in 10 .. 14 THEN <<12, 10>>
                    ELSE <<10, 9>>
        IN  /\ (n <= 10) <=> (p_pie.fig.textposition = "auto")
            /\ (n > 10) <=> (p_pie.fig.textposition = "outside")
            /\ truncated(p_pie.fig.inside_font_size, base[1], m)
            /\ truncated(p_pie.fig.outside_font_size, base[2], m)
            /\ \A k \in 0 .. n :
                  LET smaller == pie_figure(LongFrame(k, 3), p_style)
                  IN  /\ smaller.inside_font_size >= p_pie.fig.inside_font_size
                      /\ smaller.outside_font_size >= p_pie.fig.outside_font_size
            /\ p_pie.fig.margin.l = (IF n > 10 THEN 50 ELSE 10)
            /\ p_pie.fig.margin.r = p_pie.fig.margin.l

C16_Witness ==
    /\ pie_called
    /\ p_pie.exc = "none"
    /\ drawn = 10
    /\ p_style.label_font_size_multiplier = 7
    /\ p_pie.fig.textposition = "auto"
    /\ p_pie.fig.inside_font_size = 8
    /\ p_pie.fig.outside_font_size = 7

C16_Witness_Outside ==
    /\ pie_called
    /\ p_pie.exc = "none"
    /\ drawn = 15
    /\ p_style.label_font_size_multiplier = 15
    /\ p_pie.fig.textposition = "outside"
    /\ p_pie.fig.inside_font_size = 15
    /\ p_pie.fig.outside_font_size = 13

\* C17: every chart specification of create_pie_chart and create_bar_chart
\* carries exactly two watermark annotations with the watermark text: a
\* small corner mark at (watermark_x, watermark_y) and a large faint mark at
\* x = 0.5, whose y is the vertical centre (v_b + 1 - v_t) / 2 of the
\* drawing domain for the pie chart and 0.5 for the bar chart.
C17_Watermarks ==
    /\ (pie_called /\ p_pie.exc = "none") =>
          LET a == p_pie.fig.annotations
              g == p_pie.fig.geometry
          IN  /\ Len(a) = 2
              /\ a[1].text = p_style.watermark_text /\ a[2].text = p_style.watermark_text
              /\ a[1].x = p_style.watermark_x
              /\ a[1].y = 10000 * p_style.watermark_y
              /\ a[1].size < a[2].size
              /\ a[2].x = 50
              /\ 2 * a[2].y = 100 * (g.v_gutter_b + 10000 - g.v_gutter_t)
              /\ g.v_gutter_b = v_gutter_b(drawn)
              /\ g.v_gutter_t =
                    v_gutter_t(drawn,
                               IF drawn = 0 THEN NanLen
                               ELSE MaxOf([i \in 1 .. drawn |-> Len(p_pie.fig.names[i])]))
    /\ bar_called =>
          LET a == p_bar.fig.annotations
          IN  /\ Len(a) = 2
              /\ a[1].text = p_style.watermark_text /\ a[2].text = p_style.watermark_text
              /\ a[1].x = p_style.watermark_x
              /\ a[1].y = 10000 * p_style.watermark_y
              /\ a[1].size < a[2].size
              /\ a[2].x = 50
              /\ a[2].y = 500000

C17_Witness ==
    /\ pie_called
    /\ bar_called
    /\ p_pie.exc = "none"
    /\ drawn = 16
    /\ p_style.watermark_x = 0
    /\ p_pie.fig.annotations[1].x = 0
    /\ p_pie.fig.annotations[2].y # 500000
    /\ p_bar.fig.annotations[2].y = 500000

\* "Column i" written out, for the widths of the sample sheets
PositionalNames ==
    <<<<"C", "o", "l", "u", "m", "n", " ", "0">>,
      <<"C", "o", "l", "u", "m", "n", " ", "1">>,
      <<"C", "o", "l", "u", "m", "n", " ", "2">>>>

\* the result r of build_sidebar on the sheet grid treats the first row as
\* the header flag says
header_respected(r, grid) ==
    LET k == Len(grid[1])
        names == IF r.has_header THEN grid[1] ELSE SubSeq(PositionalNames, 1, k)
        data == IF r.has_header THEN SubSeq(grid, 2, Len(grid)) ELSE grid
    IN  /\ r.columns = names
        /\ \E l, v \in 1 .. k :
              /\ r.label = names[l]
              /\ r.value = names[v]
              /\ labels_of(r.cleaned) =
                    LET kept == SelectSeq(data, LAMBDA row : row[l] # NA /\ row[v] # NA)
                    IN  [i \in DOMAIN kept |-> kept[i][l]]

\* C18: a sheet declared to have no header is read with its first row as
\* data and its k columns are named "Column 0" .. "Column k-1" by position
\* before a column is offered for selection; with a header declared the
\* first row gives the column names and is not part of the data.
C18_HeaderFlag ==
    /\ pie_loaded => header_respected(pie, pie_file.sheets[1].grid)
    /\ bar_loaded => header_respected(bar, bar_file.sheets[1].grid)

C18_Witness ==
    /\ pie_loaded
    /\ ~pie.has_header
    /\ pie.columns = <<PositionalNames[1], PositionalNames[2]>>
    /\ pie.label = PositionalNames[1]
    /\ Len(pie.cleaned) = 3
    /\ pie.cleaned[1].label = Hdr_L
    /\ pie.cleaned[2].label = Lab_Royal

C18_Witness_Header ==
    /\ pie_loaded
    /\ pie.has_header
    /\ pie.columns = <<Hdr_L, Hdr_C>>
    /\ labels_of(pie.cleaned) = <<Lab_Royal, Lab_Carnival>>

without_minus(t) == SelectSeq(t, LAMBDA c : c # "-")

\* C21: every value clean_capacity_column gives that is not missing is
\* >= 0: the minus sign goes with every other character that is neither a
\* digit nor '.', so a cell keeps the value of its text without the sign
\* and "-5" (the text of the number -5 as well) cleans to 5.0.
C21_SignLost ==
    clean_done =>
        \A i \in DOMAIN series :
            /\ clean_out[i] = NaN \/ clean_out[i].m >= 0
            /\ series[i] # NA =>
                  clean_out[i] = clean_capacity_column(<<without_minus(series[i])>>)[1]
            /\ series[i] = Txt_minus5 => clean_out[i] = Num(5)
            /\ series[i] = Txt_minus5_0 => clean_out[i] = Num(5)

C21_Witness ==
    /\ clean_done
    /\ series = <<Txt_minus5>>
    /\ clean_out = <<Num(5)>>

\* the chart and page colours of a theme, as the theme tables give them
theme_modes == {"Dark", "Light"}
other_theme(m) == IF m = "Dark" THEN "Light" ELSE "Dark"
chart_paper_of(m) == IF m = "Dark" THEN "#1E1E1E" ELSE "#FFFFFF"
chart_plot_of(m) == IF m = "Dark" THEN "#1F1E1E" ELSE "#FFFFFF"
page_bg_of(m) == IF m = "Dark" THEN "#0E1117" ELSE "#FFFFFF"
page_text_of(m) == IF m = "Dark" THEN "#FAFAFA" ELSE "#262730"
theme_pressed == pc = "start" /\ pc' = "rerun"

C22_State ==
    /\ "theme_mode" \in DOMAIN session_state =>
           session_state.theme_mode \in theme_modes
    /\ pc # "start" => "theme_mode" \in DOMAIN session_state
    /\ page_css # NoCss =>
           /\ page_css.background_color = page_bg_of(session_state.theme_mode)
           /\ page_css.color = page_text_of(session_state.theme_mode)
    /\ \A f \in {fig_pie, fig_bar} \cup Range(rendered) :
           f # NoFig =>
               /\ f.paper_bgcolor = chart_paper_of(session_state.theme_mode)
               /\ f.plot_bgcolor = chart_plot_of(session_state.theme_mode)
    /\ \A m \in theme_modes :
           toggle_theme(toggle_theme([theme_mode |-> m])).theme_mode = m

C22_Step ==
    /\ (pc = "start" /\ session_state = NoSession) =>
           session_state'.theme_mode = IF theme_pressed THEN "Light" ELSE "Dark"
    /\ (theme_pressed /\ session_state # NoSession) =>
           session_state'.theme_mode = other_theme(session_state.theme_mode)
    /\ theme_pressed =>
           /\ pie_file' = NoFile /\ bar_file' = NoFile
           /\ pie' = NotLoaded /\ bar' = NotLoaded
           /\ fig_pie' = NoFig /\ fig_bar' = NoFig
           /\ rendered' = <<>> /\ previewed' = <<>>
           /\ page_css' = NoCss
    /\ (pc = "start" /\ ~theme_pressed /\ session_state # NoSession) =>
           session_state'.theme_mode = session_state.theme_mode
    /\ (pc # "start" /\ pc' # "start") =>
           session_state'.theme_mode = session_state.theme_mode
    /\ pc = "rerun" =>
           /\ pc' = "start"
           /\ session_state'.theme_mode = session_state.theme_mode

\* C22: theme_mode is "Dark" or "Light", "Dark" on the first pass of a
\* session; a press of the theme button flips it and re-runs the script
\* before a file is read or a chart built, so that pass renders nothing;
\* the theme then stays as it is until the next press, and every page style
\* and chart background of the following passes carries the colours of the
\* theme in force; two presses give the theme back.
C22_ThemeToggle == [](C22_State) /\ [][C22_Step]_vars

C22_Witness ==
    /\ pc = "done"
    /\ session_state.theme_mode = "Light"
    /\ page_css = [color_scheme |-> "light", background_color |-> "#FFFFFF",
                   color |-> "#262730"]
    /\ Len(rendered) = 2
    /\ fig_pie.paper_bgcolor = "#FFFFFF"
    /\ fig_bar.plot_bgcolor = "#FFFFFF"

====
